---- MODULE Spec2Model ----
(***************************************************************************)
(* Model of src/src/FractalGeometry.wasm.asc: the orbit-geometry kernel    *)
(* (build -> myBuild -> FractalGeometry) and the buffer pool it keeps in   *)
(* the module global lastData.                                             *)
(*                                                                         *)
(* Numbers.  The kernel computes in f32.  A value is modelled as a pair    *)
(* <<n, d>>: the exact rational n/d when d > 0 (kept in lowest terms), and *)
(* the IEEE specials +inf = <<1,0>>, -inf = <<-1,0>>, NaN = <<0,0>>.       *)
(* +, -, *, / are exact on finite values and follow IEEE on the specials   *)
(* (x/0, inf-inf, 0*inf, comparisons with NaN); the rounding of f32 is     *)
(* abstracted away.  sqrt and log, which leave the rationals, are rounded  *)
(* down to the grid 1/Grid.                                                *)
(***************************************************************************)
EXTENDS Integers, Sequences, FiniteSets, TLC

\* ------------------------------------------------------------------ bounds
\* largest value of the three count fields levelSettings[0..2]
MaxCount == 2
\* number of build calls the host makes in one behaviour
MaxBuilds == 2
\* sqrt and log are rounded down to multiples of 1/Grid
Grid == 16

\* ------------------------------------------------------------ f32 arithmetic
Abs(n) == IF n < 0 THEN -n ELSE n
Sgn(n) == IF n < 0 THEN -1 ELSE IF n > 0 THEN 1 ELSE 0

RECURSIVE Gcd(_, _)
Gcd(a, b) == IF b = 0 THEN a ELSE Gcd(b, a % b)

\* the value n/d, d any integer: lowest terms, d = 0 gives +inf, -inf or NaN
Q(n, d) ==
    IF d = 0 THEN <<Sgn(n), 0>>
    ELSE LET g == Gcd(Abs(n), Abs(d))
         IN  <<(Sgn(d) * n) \div g, Abs(d) \div g>>

R(n) == <<n, 1>>
NaN == <<0, 0>>
PInf == <<1, 0>>
NInf == <<-1, 0>>
IsNaN(a) == a = NaN
IsInf(a) == a[2] = 0 /\ a[1] # 0
IsFin(a) == a[2] > 0

FNeg(a) == <<-a[1], a[2]>>
\* (finite values are brought to the least common denominator, and products
\* are reduced before they are formed, to keep the integers small)
Lcd(a, b) == (a[2] \div Gcd(a[2], b[2])) * b[2]
FAdd(a, b) ==
    IF IsInf(a) /\ IsInf(b) THEN (IF a = b THEN a ELSE NaN)
    ELSE IF IsFin(a) /\ IsFin(b)
    THEN LET l == Lcd(a, b)
         IN  Q(a[1] * (l \div a[2]) + b[1] * (l \div b[2]), l)
    ELSE Q(a[1] * b[2] + b[1] * a[2], a[2] * b[2])
FSub(a, b) == FAdd(a, FNeg(b))
FMul(a, b) ==
    IF IsFin(a) /\ IsFin(b) /\ a[1] # 0 /\ b[1] # 0
    THEN LET g == Gcd(Abs(a[1]), b[2])
             h == Gcd(Abs(b[1]), a[2])
         IN  Q((a[1] \div g) * (b[1] \div h), (a[2] \div h) * (b[2] \div g))
    ELSE IF IsFin(a) /\ IsFin(b) THEN R(0)
    ELSE <<Sgn(a[1]) * Sgn(b[1]), 0>>
\* a / b is a times the reciprocal of b: 1/0 = +inf, 1/inf = 0
FInv(b) == IF b[1] < 0 THEN <<-b[2], -b[1]>> ELSE <<b[2], b[1]>>
FDiv(a, b) ==
    IF IsInf(a) /\ b[1] = 0 /\ b[2] > 0 THEN a
    ELSE IF IsFin(a) /\ a[1] # 0 /\ b[1] = 0 /\ b[2] > 0 THEN <<Sgn(a[1]), 0>>
    ELSE IF IsInf(b) THEN (IF IsFin(a) THEN R(0) ELSE NaN)
    ELSE IF IsNaN(a) \/ IsNaN(b) \/ b[1] = 0 THEN NaN
    ELSE FMul(a, FInv(b))
FLt(a, b) ==
    IF IsNaN(a) \/ IsNaN(b) THEN FALSE
    ELSE IF IsInf(a) /\ IsInf(b) THEN a[1] < b[1]
    ELSE IF IsFin(a) /\ IsFin(b)
    THEN LET l == Lcd(a, b)
         IN  a[1] * (l \div a[2]) < b[1] * (l \div b[2])
    ELSE a[1] * b[2] < b[1] * a[2]
FGt(a, b) == FLt(b, a)
FEq(a, b) == ~IsNaN(a) /\ ~IsNaN(b) /\ a = b
FLe(a, b) == FLt(a, b) \/ FEq(a, b)

\* largest r with r * r <= m
RECURSIVE SqrtSearch(_, _, _)
SqrtSearch(m, lo, hi) ==
    IF lo >= hi THEN lo
    ELSE LET mid == (lo + hi + 1) \div 2
         IN  IF mid * mid <= m THEN SqrtSearch(m, mid, hi)
             ELSE SqrtSearch(m, lo, mid - 1)
\* (46340 is the largest root of a 32-bit integer)
ISqrt(m) == SqrtSearch(m, 0, IF m < 46340 THEN m ELSE 46340)

\* floor(n / d) for d > 0
FloorDiv(n, d) == n \div d

isqrt(a) ==
    IF IsNaN(a) \/ a[1] < 0 THEN NaN
    ELSE IF IsInf(a) THEN PInf
    ELSE Q(ISqrt(FloorDiv(a[1] * Grid * Grid, a[2])), Grid)

iabs(a) == <<Abs(a[1]), a[2]>>

\* Math.log on finite a > 0, in fixed point with unit 1/LogUnit:
\* a = u * 2^m with 1 <= u < 2, ln a = m * ln 2 + 2 * (w + w^3/3 + w^5/5),
\* w = (u - 1)/(u + 1); the result is rounded down to the grid
LogUnit == 4 * Grid * Grid
Ln2 == (6931 * LogUnit) \div 10000
RECURSIVE LogExp(_)
LogExp(a) ==
    IF FLt(a, R(1)) THEN LogExp(FMul(a, R(2))) - 1
    ELSE IF FLt(a, R(2)) THEN 0
    ELSE LogExp(FDiv(a, R(2))) + 1
RECURSIVE Pow2(_)
Pow2(m) == IF m = 0 THEN R(1) ELSE IF m > 0 THEN FMul(R(2), Pow2(m - 1))
           ELSE FDiv(Pow2(m + 1), R(2))
LogFix(a) ==
    LET m  == LogExp(a)
        u  == FDiv(a, Pow2(m))
        w  == FDiv(FSub(u, R(1)), FAdd(u, R(1)))
        w1 == FloorDiv(w[1] * LogUnit, w[2])
        w3 == FloorDiv(w1 * w1 * w1, LogUnit * LogUnit)
        w5 == FloorDiv(w3 * w1 * w1, LogUnit * LogUnit)
    IN  m * Ln2 + 2 * (w1 + FloorDiv(w3, 3) + FloorDiv(w5, 5))
ilog(a) ==
    IF IsNaN(a) \/ a[1] < 0 THEN NaN
    ELSE IF a = PInf THEN PInf
    ELSE IF a[1] = 0 THEN NInf
    ELSE Q(FloorDiv(LogFix(a) * Grid, LogUnit), Grid)

\* Math.floor(n) as i32, on finite values
ifloor(a) == FloorDiv(a[1], a[2])

\* ------------------------------------------------------- program constants
Null == 0
\* (x as Float32Array).fill(123)
Sentinel == 123
\* levelSettings = new Float32Array(17)
NumSettings == 17
\* the divisor of s / 100 and of levelSettings[5] / 100
Hundred == 100
Half == Q(1, 2)
ThreeQuarters == Q(3, 4)

\* ------------------------------------------------------------------ inputs
\* Math.random(): the host's random source is a tape of values in [0, 1), read
\* cyclically; the k-th irnd() of a build call (k from 0) returns Draw(t, k)
Tapes == << <<0, 0, 0, 0, 0, 0, 0>>,
            <<2, 2, 2, 2, 2, 2, 1>>,
            <<3, 1, 0, 2, 1, 3, 2>> >>
TapeIds == 1..Len(Tapes)
Draw(t, k) == Q(Tapes[t][(k % Len(Tapes[t])) + 1], 4)

\* fields [3..16] the host writes: scaleFactor, tunnel flag, inner and outer
\* radius percent, and the (min, max) pairs of a, b, c, d, e
Shapes == { <<4, 0, 0, 0,  1, 1,  0, 0,  0, 0,  0, 0,  1, 1>>,
            <<4, 1, 50, 50,  0, 4,  1, 1,  0, 4,  0, 0,  -2, 2>>,
            <<1, 1, 50, 0,  1, 0,  2, 2,  1, 1,  1, 2,  0, 0>> }
Counts == 0..MaxCount
Settings(c0, c1, c2, sh) ==
    [k \in 0..(NumSettings - 1) |->
        IF k = 0 THEN R(c0) ELSE IF k = 1 THEN R(c1) ELSE IF k = 2 THEN R(c2)
        ELSE R(sh[k - 2])]
Configs == { Settings(c0, c1, c2, sh) : c0 \in Counts, c1 \in Counts,
                                        c2 \in Counts, sh \in Shapes }
\* the inputs of the behaviours of several calls: every count, one shape and
\* one tape
PoolShape == <<4, 1, 50, 50,  0, 4,  1, 1,  0, 4,  0, 0,  -2, 2>>
PoolConfigs == { Settings(c0, c1, c2, PoolShape) : c0 \in Counts, c1 \in Counts,
                                                  c2 \in Counts }
PoolTapes == {3}
\* [0] written as the duplicate of [1]
DupConfigs == { Settings(c1, c1, c2, PoolShape) : c1 \in Counts, c2 \in Counts }
\* the points the warp is tried on, in quarters, and the radius percents
WarpCoords == { Q(n, 4) : n \in -8..8 }
WarpPercents == {0, 25, 50, 100}
LevelIds == {0, 1}

\* ------------------------------------------------------------------- state
VARIABLES
    levelSettings,  \* the exported Float32Array(17)
    lastData,       \* the module global: Null or the address of the pool array
    arrays,         \* heap: address of an Array -> its elements (buffer addresses)
    f32s,           \* heap: address of a Float32Array -> its contents
    nextId,         \* next free heap address
    pc,             \* "idle", "ready" (configured), or the loop head build is at
    fg,             \* the frame of FractalGeometry: its parameters and locals
    tape, drawn,    \* the random tape of the running call, and irnd() calls so far
    status, ret,    \* how the last build call ended, and what it returned
    builds,         \* number of build calls made
    written,        \* per buffer slot: stored to by the running (or last) call
    prev,           \* the completed call before the last one
    ref             \* the first completed call

vars == <<levelSettings, lastData, arrays, f32s, nextId, pc, fg, tape, drawn,
          status, ret, builds, written, prev, ref>>

NoFrame ==
    [reuse |-> Null, numSubsets |-> 0, numPoints |-> 0,
     scaleFactor |-> R(0), iRadius |-> R(0), oRadius |-> R(0),
     al |-> R(0), bl |-> R(0), cl |-> R(0), dl |-> R(0), el |-> R(0),
     choice |-> R(0), xMin |-> R(0), xMax |-> R(0), yMin |-> R(0), yMax |-> R(0),
     s |-> 0, x |-> R(0), y |-> R(0), i |-> 0, sets |-> Null,
     scaleX |-> R(0), scaleY |-> R(0),
     dist |-> R(0), scaling |-> R(0), outer |-> R(0),
     fresh |-> FALSE, branches |-> {}, warped |-> FALSE, px |-> R(0), py |-> R(0)]

NoShape == [subsets |-> 0, points |-> 0, ret |-> Null, bufs |-> <<>>, nextId |-> 0]
NoCall == [settings |-> <<>>, tape |-> 0, ret |-> Null, bufs |-> <<>>,
           data |-> <<>>, nextId |-> 0]

Init ==
    /\ levelSettings = [k \in 0..(NumSettings - 1) |-> R(0)]
    /\ lastData = Null
    /\ arrays = <<>>
    /\ f32s = <<>>
    /\ nextId = 1
    /\ pc = "idle"
    /\ fg = NoFrame
    /\ tape = 1
    /\ drawn = 0
    /\ status = "none"
    /\ ret = Null
    /\ builds = 0
    /\ written = <<>>
    /\ prev = NoShape
    /\ ref = NoCall

\* ------------------------------------------------------------ the kernel
\* myBuild, lines 190-192: the sizes of the pool and when it is allocated
PoolCount(ls) == ifloor(ls[0])
BufferLen(ls) == ifloor(ls[1]) * 2
\* (the pool allocated anew on every call)
NeedsAllocAlways(ld) == TRUE
NeedsAlloc(ld) == ld = Null

\* FractalGeometry, lines 73-74: the bounds of its loops
GenSubsets(ls) == ifloor(ls[1])
GenPoints(ls) == ifloor(ls[2])

\* lines 84-88: a_val = a_min + random * (a_max - a_min)
Coef(lo, hi, u) == FAdd(lo, FMul(u, FSub(hi, lo)))

\* lines 109-110: s / 100 * (0.5 - irnd()); s and 100 are both i32, so the
\* quotient is the integer one
Seed(s, u) == FMul(R(s \div Hundred), FSub(Half, u))

\* lines 116-118: which iteration formula choice selects, and the formulas
\* (the second threshold taken for the first)
BranchOneThreshold(choice) == IF FLt(choice, ThreeQuarters) THEN 1 ELSE 3
Branch(choice) ==
    IF FLt(choice, Half) THEN 1
    ELSE IF FLt(choice, ThreeQuarters) THEN 2
    ELSE 3
ZOf(br, bl, cl, dl, x) ==
    LET r == isqrt(iabs(FSub(FMul(bl, x), cl)))
    IN  IF br = 1 THEN FAdd(dl, r)
        ELSE IF br = 2 THEN FAdd(dl, isqrt(r))
        ELSE FAdd(dl, ilog(FAdd(R(2), r)))

\* (the two signs exchanged)
X1Swapped(x, y, z) ==
    IF FGt(x, R(0)) THEN FAdd(y, z)
    ELSE IF FEq(x, R(0)) THEN y
    ELSE FSub(y, z)
\* lines 120-122
X1(x, y, z) ==
    IF FGt(x, R(0)) THEN FSub(y, z)
    ELSE IF FEq(x, R(0)) THEN y
    ELSE FAdd(y, z)

\* lines 125-129: if (v < min) min = v; else if (v > max) max = v;
\* (the comparison of the minimum turned round)
NewMinFlipped(v, lo) == IF FGt(v, lo) THEN v ELSE lo
NewMin(v, lo) == IF FLt(v, lo) THEN v ELSE lo
NewMax(v, lo, hi) == IF FLt(v, lo) THEN hi ELSE IF FGt(v, hi) THEN v ELSE hi

\* lines 134, 136: the two values a step stores and carries on with
StepY(al, x) == FSub(al, x)
StepX(x1, el) == FAdd(x1, el)

\* line 141-142
ScaleOf(scaleFactor, hi, lo) == FDiv(FMul(R(2), scaleFactor), FSub(hi, lo))

\* lines 155, 157
Rescale(scale, v, lo, scaleFactor) == FSub(FMul(scale, FSub(v, lo)), scaleFactor)

\* lines 179-183
getPointDistance(x1, y1, x2, y2) ==
    LET a == FSub(x1, x2)
        b == FSub(y1, y2)
    IN  isqrt(FAdd(FMul(a, a), FMul(b, b)))

\* (the point multiplied by scaling where the code divides)
WarpInward(x, y, scaleFactor, iRadius, oRadius) ==
    IF FGt(iRadius, R(0)) THEN
        LET dist == FDiv(getPointDistance(R(0), R(0), x, y), scaleFactor)
        IN  IF FLt(dist, iRadius) THEN
                LET scaling == FDiv(dist, iRadius)
                    outer == FDiv(scaling, oRadius)
                IN  [x |-> FAdd(FMul(x, scaling), FMul(x, outer)),
                     y |-> FAdd(FMul(y, scaling), FMul(y, outer)),
                     dist |-> dist, scaling |-> scaling, outer |-> outer,
                     warped |-> TRUE]
            ELSE [x |-> x, y |-> y, dist |-> dist, warped |-> FALSE]
    ELSE [x |-> x, y |-> y, warped |-> FALSE]
\* lines 160-169: the tunnel warp of one rescaled point; the locals it leaves
Warp(x, y, scaleFactor, iRadius, oRadius) ==
    IF FGt(iRadius, R(0)) THEN
        LET dist == FDiv(getPointDistance(R(0), R(0), x, y), scaleFactor)
        IN  IF FLt(dist, iRadius) THEN
                LET scaling == FDiv(dist, iRadius)
                    outer == FDiv(scaling, oRadius)
                IN  [x |-> FAdd(FDiv(x, scaling), FMul(x, outer)),
                     y |-> FAdd(FDiv(y, scaling), FMul(y, outer)),
                     dist |-> dist, scaling |-> scaling, outer |-> outer,
                     warped |-> TRUE]
            ELSE [x |-> x, y |-> y, dist |-> dist, warped |-> FALSE]
    ELSE [x |-> x, y |-> y, warped |-> FALSE]

\* -------------------------------------------------------------- operations
Fill(n, v) == [k \in 1..n |-> v]
\* the elements of the pool array at address a, and their contents
Bufs(a) == IF a = Null THEN <<>> ELSE arrays[a]
Data(a) == [k \in 1..Len(Bufs(a)) |-> f32s[Bufs(a)[k]]]
\* the pool a completed call returned, and the counts it ran with
Shape(a) == [subsets |-> GenSubsets(levelSettings),
             points |-> GenPoints(levelSettings),
             ret |-> a, bufs |-> Bufs(a), nextId |-> nextId]
\* a completed call, as the host saw it: levelSettings is what it ran with
Snapshot(a) == [settings |-> levelSettings, tape |-> tape, ret |-> a,
                bufs |-> Bufs(a), data |-> Data(a), nextId |-> nextId]

\* the host writes the configuration vector before each call
Configure(cfg, maxBuilds) ==
    /\ pc = "idle"
    /\ builds < maxBuilds
    /\ levelSettings' = cfg
    /\ pc' = "ready"
    /\ prev' = IF status = "ok" THEN Shape(ret) ELSE NoShape
    /\ UNCHANGED <<builds, lastData, arrays, f32s, nextId, fg, tape, drawn, status,
                   ret, written, ref>>

\* build(id) up to the head of the subset loop: myBuild lines 190-199 and
\* FractalGeometry lines 73-96; no line reads id (levelId), the frame drops it
Build(id, t) ==
    /\ pc = "ready"
    /\ LET ls == levelSettings
           n == PoolCount(ls)
           len == BufferLen(ls)
           alloc == NeedsAlloc(lastData)
           pool == IF alloc THEN nextId ELSE lastData
           newArrays == IF alloc THEN (pool :> [k \in 1..n |-> pool + k]) @@ arrays
                        ELSE arrays
           newF32s == IF alloc
                      THEN [a \in (pool + 1)..(pool + n) |-> Fill(len, R(Sentinel))] @@ f32s
                      ELSE f32s
       IN  /\ lastData' = pool
           /\ arrays' = newArrays
           /\ f32s' = newF32s
           /\ nextId' = IF alloc THEN nextId + 1 + n ELSE nextId
           /\ written' = [a \in DOMAIN newF32s |-> Fill(Len(newF32s[a]), FALSE)]
           /\ fg' = [NoFrame EXCEPT
                  !.reuse = pool, !.fresh = alloc,
                  !.numSubsets = GenSubsets(ls), !.numPoints = GenPoints(ls),
                  !.scaleFactor = ls[3],
                  !.iRadius = FDiv(ls[5], R(Hundred)),
                  !.oRadius = FDiv(ls[6], R(Hundred)),
                  !.al = Coef(ls[7], ls[8], Draw(t, 0)),
                  !.bl = Coef(ls[9], ls[10], Draw(t, 1)),
                  !.cl = Coef(ls[11], ls[12], Draw(t, 2)),
                  !.dl = Coef(ls[13], ls[14], Draw(t, 3)),
                  !.el = Coef(ls[15], ls[16], Draw(t, 4)),
                  !.choice = Draw(t, 5)]
    /\ tape' = t
    /\ drawn' = 6
    /\ pc' = "subset"
    /\ builds' = builds + 1
    /\ status' = "running"
    /\ ret' = Null
    /\ UNCHANGED <<levelSettings, prev, ref>>

\* the call aborts: an index outside the array or the typed array
Trap ==
    /\ pc' = "idle"
    /\ status' = "trap"
    /\ fg' = NoFrame
    /\ drawn' = 0
    /\ UNCHANGED <<builds, levelSettings, lastData, arrays, f32s, nextId, tape, ret,
                   written, prev, ref>>

\* line 105-113, s < numSubsets: seed the orbit and fetch reuse[s]
GenSubset ==
    /\ pc = "subset"
    /\ fg.s < fg.numSubsets
    /\ fg.s < Len(arrays[fg.reuse])
    /\ fg' = [fg EXCEPT !.x = Seed(fg.s, Draw(tape, drawn)),
                        !.y = Seed(fg.s, Draw(tape, drawn + 1)),
                        !.sets = arrays[fg.reuse][fg.s + 1],
                        !.i = 0]
    /\ drawn' = drawn + 2
    /\ pc' = "point"
    /\ UNCHANGED <<builds, levelSettings, lastData, arrays, f32s, nextId, tape, status,
                   ret, written, prev, ref>>

\* line 113 with s outside the pool array
GenSubsetTrap ==
    /\ pc = "subset"
    /\ fg.s < fg.numSubsets
    /\ fg.s >= Len(arrays[fg.reuse])
    /\ Trap

\* lines 114-137, one point: i < numPoints
GenPoint ==
    /\ pc = "point"
    /\ fg.i < fg.numPoints
    /\ LET br == Branch(fg.choice)
           z == ZOf(br, fg.bl, fg.cl, fg.dl, fg.x)
           x1 == X1(fg.x, fg.y, z)
           bid == fg.i * 2
           ny == StepY(fg.al, fg.x)
           nx == StepX(x1, fg.el)
       IN  /\ bid + 1 < Len(f32s[fg.sets])
           /\ f32s' = [f32s EXCEPT ![fg.sets][bid + 2] = ny,
                                   ![fg.sets][bid + 1] = nx]
           /\ written' = [written EXCEPT ![fg.sets][bid + 2] = TRUE,
                                         ![fg.sets][bid + 1] = TRUE]
           /\ fg' = [fg EXCEPT
                  !.xMin = NewMin(fg.x, fg.xMin),
                  !.xMax = NewMax(fg.x, fg.xMin, fg.xMax),
                  !.yMin = NewMin(fg.y, fg.yMin),
                  !.yMax = NewMax(fg.y, fg.yMin, fg.yMax),
                  !.x = nx, !.y = ny, !.i = fg.i + 1,
                  !.branches = fg.branches \cup {br}]
    /\ UNCHANGED <<builds, levelSettings, lastData, arrays, nextId, pc, tape, drawn,
                   status, ret, prev, ref>>

\* line 134 with bid + 1 outside the buffer
GenPointTrap ==
    /\ pc = "point"
    /\ fg.i < fg.numPoints
    /\ fg.i * 2 + 1 >= Len(f32s[fg.sets])
    /\ Trap

\* line 114, i = numPoints: on to the next subset
GenSubsetEnd ==
    /\ pc = "point"
    /\ fg.i >= fg.numPoints
    /\ fg' = [fg EXCEPT !.s = fg.s + 1]
    /\ pc' = "subset"
    /\ UNCHANGED <<builds, levelSettings, lastData, arrays, f32s, nextId, tape, drawn,
                   status, ret, written, prev, ref>>

\* line 105, s = numSubsets; lines 141-145
GenEnd ==
    /\ pc = "subset"
    /\ fg.s >= fg.numSubsets
    /\ fg' = [fg EXCEPT
           !.scaleX = ScaleOf(fg.scaleFactor, fg.xMax, fg.xMin),
           !.scaleY = ScaleOf(fg.scaleFactor, fg.yMax, fg.yMin),
           !.s = 0]
    /\ pc' = "nsubset"
    /\ UNCHANGED <<builds, levelSettings, lastData, arrays, f32s, nextId, tape, drawn,
                   status, ret, written, prev, ref>>

\* lines 148-150, s < numSubsets
NormSubset ==
    /\ pc = "nsubset"
    /\ fg.s < fg.numSubsets
    /\ fg' = [fg EXCEPT !.sets = arrays[fg.reuse][fg.s + 1], !.i = 0]
    /\ pc' = "npoint"
    /\ UNCHANGED <<builds, levelSettings, lastData, arrays, f32s, nextId, tape, drawn,
                   status, ret, written, prev, ref>>

\* lines 151-173, one point
NormPoint ==
    /\ pc = "npoint"
    /\ fg.i < fg.numPoints
    /\ LET bid == fg.i * 2
           rx == Rescale(fg.scaleX, f32s[fg.sets][bid + 1], fg.xMin, fg.scaleFactor)
           ry == Rescale(fg.scaleY, f32s[fg.sets][bid + 2], fg.yMin, fg.scaleFactor)
           w == Warp(rx, ry, fg.scaleFactor, fg.iRadius, fg.oRadius)
       IN  /\ f32s' = [f32s EXCEPT ![fg.sets][bid + 1] = w.x,
                                   ![fg.sets][bid + 2] = w.y]
           /\ fg' = [fg EXCEPT
                  !.x = w.x, !.y = w.y, !.i = fg.i + 1,
                  !.dist = IF "dist" \in DOMAIN w THEN w.dist ELSE fg.dist,
                  !.scaling = IF w.warped THEN w.scaling ELSE fg.scaling,
                  !.outer = IF w.warped THEN w.outer ELSE fg.outer,
                  !.warped = w.warped, !.px = rx, !.py = ry]
    /\ UNCHANGED <<builds, levelSettings, lastData, arrays, nextId, pc, tape, drawn,
                   status, ret, written, prev, ref>>

\* line 151, i = numPoints
NormSubsetEnd ==
    /\ pc = "npoint"
    /\ fg.i >= fg.numPoints
    /\ fg' = [fg EXCEPT !.s = fg.s + 1]
    /\ pc' = "nsubset"
    /\ UNCHANGED <<builds, levelSettings, lastData, arrays, f32s, nextId, tape, drawn,
                   status, ret, written, prev, ref>>

\* line 148, s = numSubsets; line 176 and line 199
\* track: whether the first completed call is kept in ref
Return(track) ==
    /\ pc = "nsubset"
    /\ fg.s >= fg.numSubsets
    /\ lastData' = fg.reuse
    /\ ret' = fg.reuse
    /\ status' = "ok"
    /\ pc' = "idle"
    /\ fg' = NoFrame
    /\ drawn' = 0
    /\ ref' = IF track /\ ref = NoCall THEN Snapshot(fg.reuse) ELSE ref
    /\ UNCHANGED <<builds, levelSettings, arrays, f32s, nextId, tape, written,
                   prev>>

Kernel(track) ==
    \/ GenSubset
    \/ GenSubsetTrap
    \/ GenPoint
    \/ GenPointTrap
    \/ GenSubsetEnd
    \/ GenEnd
    \/ NormSubset
    \/ NormPoint
    \/ NormSubsetEnd
    \/ Return(track)

\* several calls on one instance, over every count
Next ==
    \/ \E cfg \in PoolConfigs : Configure(cfg, MaxBuilds)
    \/ \E id \in LevelIds, t \in PoolTapes : Build(id, t)
    \/ Kernel(FALSE)

Spec == Init /\ [][Next]_vars

\* the first call of an instance, over every shape and tape
NextFirst ==
    \/ \E cfg \in Configs : Configure(cfg, 1)
    \/ \E id \in LevelIds, t \in TapeIds : Build(id, t)
    \/ Kernel(FALSE)

SpecFirst == Init /\ [][NextFirst]_vars

\* one more call than Spec, the first completed call kept for comparison
NextDet ==
    \/ \E cfg \in DupConfigs : Configure(cfg, MaxBuilds + 1)
    \/ \E id \in LevelIds, t \in PoolTapes : Build(id, t)
    \/ Kernel(TRUE)

SpecDet == Init /\ [][NextDet]_vars

\* the warp alone (lines 160-169), applied to one rescaled point
InitWarp ==
    /\ levelSettings = [k \in 0..(NumSettings - 1) |-> R(0)]
    /\ lastData = Null
    /\ arrays = <<>>
    /\ f32s = <<>>
    /\ nextId = 1
    /\ pc = "warp"
    /\ \E x \in WarpCoords, y \in WarpCoords, ip \in WarpPercents,
          op \in WarpPercents :
          fg = [NoFrame EXCEPT !.px = x, !.py = y, !.scaleFactor = R(4),
                               !.iRadius = FDiv(R(ip), R(Hundred)),
                               !.oRadius = FDiv(R(op), R(Hundred))]
    /\ tape = 1
    /\ drawn = 0
    /\ status = "none"
    /\ ret = Null
    /\ builds = 0
    /\ written = <<>>
    /\ prev = NoShape
    /\ ref = NoCall

WarpPoint ==
    /\ pc = "warp"
    /\ LET w == Warp(fg.px, fg.py, fg.scaleFactor, fg.iRadius, fg.oRadius)
       IN  fg' = [fg EXCEPT
                  !.x = w.x, !.y = w.y,
                  !.dist = IF "dist" \in DOMAIN w THEN w.dist ELSE fg.dist,
                  !.scaling = IF w.warped THEN w.scaling ELSE fg.scaling,
                  !.outer = IF w.warped THEN w.outer ELSE fg.outer,
                  !.warped = w.warped]
    /\ pc' = "warped"
    /\ UNCHANGED <<levelSettings, lastData, arrays, f32s, nextId, tape, drawn,
                   status, ret, builds, written, prev, ref>>

SpecWarp == InitWarp /\ [][WarpPoint]_vars

\* ------------------------------------------------------------------ claims
InCall == pc \in {"subset", "point", "nsubset", "npoint"}
\* build is about to return reuse (line 176)
AtReturn == pc = "nsubset" /\ fg.s >= fg.numSubsets
\* the last call returned, and so did the call before it
TwoReturned == pc = "idle" /\ status = "ok" /\ prev # NoShape
SameCounts == /\ prev.subsets = GenSubsets(levelSettings)
              /\ prev.points = GenPoints(levelSettings)
\* the pool at address a has n buffers of length len
PoolIs(a, n, len) ==
    /\ Len(arrays[a]) = n
    /\ \A k \in 1..Len(arrays[a]) : Len(f32s[arrays[a][k]]) = len

\* C1: when subsetCount [1] or pointsPerSubset [2] differs between two
\* consecutive build calls, the pool the second call returns has exactly the new
\* subsetCount buffers, each of length 2 x the new pointsPerSubset.
C1_Resized ==
    (TwoReturned /\ ~SameCounts)
        => PoolIs(ret, GenSubsets(levelSettings), 2 * GenPoints(levelSettings))

\* C2: on the first build call (no pool exists yet) the pool is allocated with
\* exactly subsetCount buffers of length 2 x pointsPerSubset, the counts being
\* fields [1] and [2], the loop bounds of the generator.
C2_FirstPool ==
    (InCall /\ fg.fresh) => PoolIs(fg.reuse, fg.numSubsets, 2 * fg.numPoints)

\* C3: of two consecutive build calls with unchanged subsetCount and
\* pointsPerSubset, the second returns the same pool object and the same
\* buffer objects as the first, and allocates nothing.
C3_PoolReused ==
    (TwoReturned /\ SameCounts)
        => /\ ret = prev.ret
           /\ arrays[ret] = prev.bufs
           /\ nextId = prev.nextId
C3_Witness ==
    /\ TwoReturned
    /\ SameCounts
    /\ Len(arrays[ret]) > 0
    /\ \E k \in 1..Len(arrays[ret]) :
          \E j \in 1..Len(f32s[arrays[ret][k]]) : written[arrays[ret][k]][j]

\* C4: build has no failure path: for every configuration with non-negative
\* integer counts, after any earlier calls, it runs to completion with every
\* pool index and buffer slot it accesses inside the pool and the buffer.
C4_NoTrap == status # "trap"

\* C5: when build returns, every slot of every buffer of the returned pool has
\* been written by that call.
C5_AllWritten ==
    AtReturn => \A k \in 1..Len(arrays[fg.reuse]) :
                   \A j \in 1..Len(f32s[arrays[fg.reuse][k]]) :
                       written[arrays[fg.reuse][k]][j]

\* C6: with subsetCount >= 1, pointsPerSubset >= 2, xMax > xMin, yMax > yMin
\* and the warp disabled, every coordinate the call wrote into the returned
\* buffers lies in [-scaleFactor, +scaleFactor], up to 1/Grid.
C6_InSquare ==
    (/\ AtReturn
     /\ fg.numSubsets >= 1
     /\ fg.numPoints >= 2
     /\ FGt(fg.xMax, fg.xMin)
     /\ FGt(fg.yMax, fg.yMin)
     /\ FEq(levelSettings[5], R(0)))
        => \A k \in 1..Len(arrays[fg.reuse]) :
               \A j \in 1..Len(f32s[arrays[fg.reuse][k]]) :
                   written[arrays[fg.reuse][k]][j]
                       => LET v == f32s[arrays[fg.reuse][k]][j]
                              lim == FAdd(fg.scaleFactor, Q(1, Grid))
                          IN  FLe(FNeg(lim), v) /\ FLe(v, lim)

\* C7: two build calls with identical configuration and identical random draws
\* return identical pool shape and identical buffer contents, whatever calls
\* preceded them (the first completed call is the one compared with).
C7_Deterministic ==
    (/\ pc = "idle"
     /\ status = "ok"
     /\ ref # NoCall
     /\ ref.settings = levelSettings
     /\ ref.tape = tape)
        => /\ Len(Bufs(ret)) = Len(ref.bufs)
           /\ Data(ret) = ref.data

\* C8: within one build call choice is the sixth draw, after the draws of a, b,
\* c, d, e in that order and before every seed draw, and is not drawn again:
\* every point of every subset uses the one formula it selects (choice < 0.5,
\* 0.5 <= choice < 0.75, choice >= 0.75).
C8_Seeded ==
    IF pc = "subset" THEN fg.s
    ELSE IF pc = "point" THEN fg.s + 1
    ELSE fg.numSubsets
C8_ChoiceOnce ==
    InCall =>
        /\ fg.al = FAdd(levelSettings[7],
                        FMul(Draw(tape, 0), FSub(levelSettings[8], levelSettings[7])))
        /\ fg.bl = FAdd(levelSettings[9],
                        FMul(Draw(tape, 1), FSub(levelSettings[10], levelSettings[9])))
        /\ fg.cl = FAdd(levelSettings[11],
                        FMul(Draw(tape, 2), FSub(levelSettings[12], levelSettings[11])))
        /\ fg.dl = FAdd(levelSettings[13],
                        FMul(Draw(tape, 3), FSub(levelSettings[14], levelSettings[13])))
        /\ fg.el = FAdd(levelSettings[15],
                        FMul(Draw(tape, 4), FSub(levelSettings[16], levelSettings[15])))
        /\ fg.choice = Draw(tape, 5)
        /\ drawn = 6 + 2 * C8_Seeded
        /\ fg.branches \subseteq
               { IF FLt(Draw(tape, 5), Q(1, 2)) THEN 1
                 ELSE IF FLt(Draw(tape, 5), Q(3, 4)) THEN 2
                 ELSE 3 }
C8_Witness ==
    /\ AtReturn
    /\ fg.numSubsets >= 2
    /\ fg.numPoints >= 2
    /\ fg.choice = Q(1, 2)
    /\ fg.branches = {2}

\* C9: with innerRadiusFraction > 0 and outerRadiusFraction > 0 every point
\* with 0 < dist < innerRadiusFraction is moved strictly farther from the
\* center; with both fractions 0.5 and dist 0.25 both coordinates are tripled.
\* (farther: neither coordinate nearer to 0 and one of them strictly farther)
C9_Farther(x, y, px, py) ==
    /\ FLe(iabs(px), iabs(x))
    /\ FLe(iabs(py), iabs(y))
    /\ FLt(iabs(px), iabs(x)) \/ FLt(iabs(py), iabs(y))
C9_PushedOut ==
    (/\ pc = "warped"
     /\ FGt(fg.iRadius, R(0))
     /\ FGt(fg.oRadius, R(0))
     /\ FGt(getPointDistance(R(0), R(0), fg.px, fg.py), R(0))
     /\ FLt(FDiv(getPointDistance(R(0), R(0), fg.px, fg.py), fg.scaleFactor),
            fg.iRadius))
        => /\ C9_Farther(fg.x, fg.y, fg.px, fg.py)
           /\ (/\ fg.iRadius = Q(1, 2)
               /\ fg.oRadius = Q(1, 2)
               /\ fg.dist = Q(1, 4))
                  => /\ fg.x = FMul(R(3), fg.px)
                     /\ fg.y = FMul(R(3), fg.py)
C9_Witness ==
    /\ pc = "warped"
    /\ fg.warped
    /\ fg.iRadius = Q(1, 2)
    /\ fg.oRadius = Q(1, 2)
    /\ fg.dist = Q(1, 4)
    /\ fg.px # R(0)
    /\ fg.x = FMul(R(3), fg.px)
    /\ fg.y = FMul(R(3), fg.py)

\* C10: in the generation pass, step i of a subset writes a - x to slot 2i+1
\* and x1 + e to slot 2i, x and y being the state before the step (the seed for
\* i = 0, otherwise the values written to slots 2(i-1) and 2(i-1)+1) and x1
\* being y - z, y or y + z as x > 0, x = 0 or x < 0; the two written values are
\* the state of step i+1.
C10_PreState ==
    (pc = "point" /\ fg.i > 0)
        => /\ fg.x = f32s[fg.sets][2 * (fg.i - 1) + 1]
           /\ fg.y = f32s[fg.sets][2 * (fg.i - 1) + 2]
C10_Step ==
    (pc = "point" /\ pc' = "point" /\ fg'.i = fg.i + 1)
        => LET z == ZOf(Branch(fg.choice), fg.bl, fg.cl, fg.dl, fg.x)
               x1 == IF FGt(fg.x, R(0)) THEN FSub(fg.y, z)
                     ELSE IF FLt(fg.x, R(0)) THEN FAdd(fg.y, z)
                     ELSE fg.y
           IN  /\ C10_PreState
               /\ f32s'[fg.sets][2 * fg.i + 2] = FSub(fg.al, fg.x)
               /\ f32s'[fg.sets][2 * fg.i + 1] = FAdd(x1, fg.el)
               /\ fg'.y = f32s'[fg.sets][2 * fg.i + 2]
               /\ fg'.x = f32s'[fg.sets][2 * fg.i + 1]
C10_SeedState ==
    (pc = "subset" /\ pc' = "point")
        => /\ fg'.i = 0
           /\ fg'.x = FMul(R(fg.s \div 100), FSub(Q(1, 2), Draw(tape, drawn)))
           /\ fg'.y = FMul(R(fg.s \div 100), FSub(Q(1, 2), Draw(tape, drawn + 1)))
C10_Iteration == [][C10_Step /\ C10_SeedState]_vars
C10_Witness ==
    /\ pc = "point"
    /\ fg.i >= 2
    /\ FLt(f32s[fg.sets][1], R(0))
    /\ fg.x = f32s[fg.sets][3]
    /\ fg.y = f32s[fg.sets][4]

\* C11: for each subset s the generator makes two fresh draws u1, u2 and seeds
\* the orbit at x = (s/100) x (0.5 - u1), y = (s/100) x (0.5 - u2), s/100 being
\* the fractional quotient: a subset with 1 <= s < 100 starts at a non-zero
\* seed whenever its draws differ from 0.5.
C11_FractionalSeeds ==
    (pc = "point" /\ fg.i = 0)
        => /\ fg.x = FMul(Q(fg.s, Hundred), FSub(Half, Draw(tape, drawn - 2)))
           /\ fg.y = FMul(Q(fg.s, Hundred), FSub(Half, Draw(tape, drawn - 1)))

\* the generation pass is over (line 138), the buffers hold the raw points
C12_GenDone == pc = "subset" /\ fg.s >= fg.numSubsets
\* slot of coordinate c (0: x, 1: y) of raw point i of subset s
C12_Raw(s, i, c) == f32s[arrays[fg.reuse][s + 1]][2 * i + 1 + c]
\* what the extrema of coordinate c range over: 0, the seed of every subset
\* when pointsPerSubset >= 1, the raw points 0 .. pointsPerSubset-2
C12_Compared(c) ==
    {R(0)}
    \cup { FMul(R(s \div Hundred), FSub(Half, Draw(tape, 6 + 2 * s + c))) :
              s \in { q \in 0..(fg.numSubsets - 1) : fg.numPoints >= 1 } }
    \cup { C12_Raw(sp[1], sp[2], c) :
              sp \in (0..(fg.numSubsets - 1)) \X (0..(fg.numPoints - 2)) }
C12_IsMin(m, S) == m \in S /\ \A v \in S : FLe(m, v)
C12_IsMax(m, S) == m \in S /\ \A v \in S : FLe(v, m)
\* C12: at the end of the generation pass xMin <= 0 <= xMax and
\* yMin <= 0 <= yMax, and the extrema of each coordinate are exactly the
\* minimum and maximum over 0, the seeds of the subsets (pointsPerSubset >= 1)
\* and the raw values at point indices 0 .. pointsPerSubset-2 of every subset:
\* the last raw point of a subset is not among the values compared.
C12_Extrema ==
    C12_GenDone
        => /\ FLe(fg.xMin, R(0)) /\ FLe(R(0), fg.xMax)
           /\ FLe(fg.yMin, R(0)) /\ FLe(R(0), fg.yMax)
           /\ C12_IsMin(fg.xMin, C12_Compared(0))
           /\ C12_IsMax(fg.xMax, C12_Compared(0))
           /\ C12_IsMin(fg.yMin, C12_Compared(1))
           /\ C12_IsMax(fg.yMax, C12_Compared(1))
C12_Witness ==
    /\ C12_GenDone
    /\ fg.numSubsets >= 1
    /\ fg.numPoints >= 2
    /\ FGt(fg.xMax, R(0))
    /\ FGt(C12_Raw(0, fg.numPoints - 1, 0), fg.xMax)

====
